---- MODULE Spec2Model ----
(***************************************************************************)
(* GeoMind: the interactive 3D canvas (components/GeometryCanvas.tsx, the  *)
(* final version of the component that starts at line 185 of the file) and *)
(* the scene it is handed by App.tsx.                                      *)
(*                                                                         *)
(* Numbers are fixed point, so that the arithmetic is integer arithmetic:  *)
(*   rotation        centiradians  (one pixel of drag is 0.01 rad)         *)
(*   scale           tenths        (one wheel unit is 0.1)                 *)
(*   cos, sin        1/10000                                               *)
(*   screen position tenths of a pixel                                     *)
(*   pointer, sizes  pixels                                                *)
(*   distances       compared by their squares (sqrt is monotone)          *)
(***************************************************************************)
EXTENDS Integers, Sequences, FiniteSets, TLC

VARIABLES
    scene,              \* prop of GeometryCanvas: [points, segments]
    rotation,           \* [x, y] centiradians
    scale,              \* tenths
    isDragging,
    lastMouse,          \* [x, y] client pixels
    mouseDownPos,       \* [x, y] client pixels (a ref, not state)
    selectedPointId,    \* an id or Null
    isMeasurementMode,
    measurePoints,      \* sequence of ids
    canvas,             \* [width, height] of the canvas bitmap
    container,          \* [clientWidth, clientHeight] of the container div
    pending,            \* frame callbacks requested and not yet run
    lastOp,             \* the last handler: its name, the square of moveDist,
                        \* the hit tests it ran, the closestId found and
                        \* the deltaY of a wheel event
    probe,              \* input and result of one hit test (HitSpec only)
    surface,            \* what draw and the click handler find behind
                        \* canvasRef: "ok", "noContext" or "noCanvas"
    ops,                \* the canvas calls of the last draw pass (DrawSpec only)
    rotationAtDown,     \* rotation at the last pointer-down
    raf,                \* the callbacks handed to requestAnimationFrame, each
                        \* with the state its draw closure holds, and the
                        \* state of the last pass run (FrameSpec only)
    app                 \* App.tsx beside its scene: messages, isLoading, and
                        \* the requests sent and not yet settled (AppSpec
                        \* only)

vars == <<scene, rotation, scale, isDragging, lastMouse, mouseDownPos,
          selectedPointId, isMeasurementMode, measurePoints, canvas,
          container, pending, lastOp, probe, surface, ops, rotationAtDown,
          raf, app>>

(***************************************************************************)
(* Values                                                                  *)
(***************************************************************************)

\* null of `string | null`; differs from every id, the empty string included
Null == "<null>"

Pt(id, x, y, z) == [id |-> id, x |-> x, y |-> y, z |-> z]

Seg(s, t, style) == [sourceId |-> s, targetId |-> t, style |-> style]

XY(x, y) == [x |-> x, y |-> y]

EmptyScene == [points |-> <<>>, segments |-> <<>>]

\* three points, one of them the origin, and a segment with a dangling end
SceneABC ==
    [points   |-> <<Pt("A", 0, 0, 0), Pt("B", 0, 1, 0), Pt("C", 1, 0, 0)>>,
     segments |-> <<Seg("A", "B", "solid"), Seg("B", "C", "dashed"),
                    Seg("A", "Z", "solid")>>]

\* a scene whose first point has the empty string as id
SceneAnon ==
    [points   |-> <<Pt("", 0, 0, 0), Pt("B", 0, 1, 0)>>,
     segments |-> <<Seg("", "B", "solid")>>]

Scenes == {EmptyScene, SceneABC, SceneAnon}

\* the canvas lies right of the 400 px chat column, at the top of the window
rect == [left |-> 400, top |-> 0]

\* a canvas element's bitmap before anything sizes it
DefaultCanvas == [width |-> 300, height |-> 150]

ContainerSizes == {[clientWidth |-> 400, clientHeight |-> 300],
                   [clientWidth |-> 400, clientHeight |-> 344]}

\* pointer positions (client pixels) of down, move and up events.  At the
\* initial camera and the 400 x 300 canvas A is drawn at (600, 150) and C
\* near (622, 144); on the 400 x 344 canvas B is drawn near (600, 150).
Positions == {XY(600, 150), XY(603, 153), XY(603, 154),
              XY(622, 144), XY(402, 150)}

\* pointer positions of leave events: just outside the container
LeavePositions == {XY(399, 150)}

WheelDeltas == {-4800, 4000}

(***************************************************************************)
(* Bounds of the model                                                     *)
(***************************************************************************)

\* a drag turns the camera at most MaxTurn centiradians past its initial
\* rotation, and not back before it
MaxTurn == 1

\* at most MaxPending frame callbacks wait at a time
MaxPending == 1

\* where the waiting callbacks are kept one by one, at most MaxBurst wait
\* at a time
MaxBurst == 2

\* and at most MaxChanges renders request one
MaxChanges == 3

(***************************************************************************)
(* Math.cos, Math.sin in fixed point (Taylor, nested form)                 *)
(***************************************************************************)

\* a / b rounded toward zero, b > 0
Quot(a, b) == IF a < 0 THEN -((-a) \div b) ELSE a \div b

\* [q, r] with a * b = q * c + r and 0 <= r < c, for a, b >= 0 and c > 0,
\* computed in steps that stay within 32 bits
RECURSIVE MulDivMod(_, _, _)
MulDivMod(a, b, c) ==
    IF b = 0 THEN [q |-> 0, r |-> 0]
    ELSE LET h == MulDivMod(a, b \div 100, c)
             t == 100 * h.r + (a % c) * (b % 100)
         IN  [q |-> 100 * h.q + (a \div c) * (b % 100) + (t \div c),
              r |-> t % c]

\* a * b / c rounded toward zero, b >= 0, c > 0
MulQuot(a, b, c) ==
    IF a < 0 THEN -(MulDivMod(-a, b, c).q) ELSE MulDivMod(a, b, c).q

Cos(r) ==
    LET q  == r * r
        c3 == 10000 - (q \div 30)
        c2 == 10000 - ((q * c3) \div 120000)
    IN  10000 - ((q * c2) \div 20000)

Sin(r) ==
    LET q  == r * r
        t3 == 10000 - (q \div 42)
        t2 == 10000 - ((q * t3) \div 200000)
        t1 == 10000 - ((q * t2) \div 60000)
    IN  Quot(r * t1, 100)

(***************************************************************************)
(* project                                                                 *)
(***************************************************************************)

\* camera distance d = 4 and the z attenuation 0.1, in units of 1/100000
CameraD == 400000

\* project with the height in the place of the width
projectCentredOnHeight(point, rot, sc, width, height) ==
    LET x1   == point.x * Cos(rot.y) - point.z * Sin(rot.y)
        z1   == point.x * Sin(rot.y) + point.z * Cos(rot.y)
        y1   == point.y * 10000
        yNew == Quot(y1 * Cos(rot.x) - z1 * Sin(rot.x), 10000)
        zNew == Quot(y1 * Sin(rot.x) + z1 * Cos(rot.x), 10000)
        den  == CameraD - zNew
    IN  [x      |-> MulQuot(x1, 10 * sc, den) + 5 * height,
         y      |-> MulQuot(-yNew, 10 * sc, den) + 5 * height,
         zIndex |-> zNew]

project(point, rot, sc, width, height) ==
    LET x1   == point.x * Cos(rot.y) - point.z * Sin(rot.y)
        z1   == point.x * Sin(rot.y) + point.z * Cos(rot.y)
        y1   == point.y * 10000
        yNew == Quot(y1 * Cos(rot.x) - z1 * Sin(rot.x), 10000)
        zNew == Quot(y1 * Sin(rot.x) + z1 * Cos(rot.x), 10000)
        den  == CameraD - zNew
    IN  [x      |-> MulQuot(x1, 10 * sc, den) + 5 * width,
         y      |-> MulQuot(-yNew, 10 * sc, den) + 5 * height,
         zIndex |-> zNew]

(***************************************************************************)
(* handleCanvasClick: the hit test                                         *)
(***************************************************************************)

\* click radius threshold, pixels
ClickRadius == 20

\* click against drag threshold, pixels
DragThreshold == 5

\* squared distance, in tenths of a pixel, from the click (pixels) to proj
Dist2(x, y, proj) ==
    LET dx == 10 * x - proj.x
        dy == 10 * y - proj.y
    IN  dx * dx + dy * dy

\* HitLoop with minDist left at the radius: the last point within it wins
RECURSIVE HitLoopKeepsRadius(_, _, _, _, _, _, _, _, _, _)
HitLoopKeepsRadius(points, i, closestId, minDist2, rot, sc, w, h, x, y) ==
    IF i > Len(points) THEN closestId
    ELSE LET dist2 == Dist2(x, y, project(points[i], rot, sc, w, h))
         IN  IF dist2 < minDist2
             THEN HitLoopKeepsRadius(points, i + 1, points[i].id, minDist2,
                                     rot, sc, w, h, x, y)
             ELSE HitLoopKeepsRadius(points, i + 1, closestId, minDist2,
                                     rot, sc, w, h, x, y)

\* the forEach over scene.points from index i on, carrying closestId and
\* the square of minDist
RECURSIVE HitLoop(_, _, _, _, _, _, _, _, _, _)
HitLoop(points, i, closestId, minDist2, rot, sc, w, h, x, y) ==
    IF i > Len(points) THEN closestId
    ELSE LET dist2 == Dist2(x, y, project(points[i], rot, sc, w, h))
         IN  IF dist2 < minDist2
             THEN HitLoop(points, i + 1, points[i].id, dist2, rot, sc, w, h, x, y)
             ELSE HitLoop(points, i + 1, closestId, minDist2, rot, sc, w, h, x, y)

\* closestId after the loop, for a click at canvas position (x, y)
HitTest(points, rot, sc, w, h, x, y) ==
    HitLoop(points, 1, Null, (10 * ClickRadius) * (10 * ClickRadius),
            rot, sc, w, h, x, y)

\* closestId for a pointer event at client position pos, in the current state
ClosestId(pos) ==
    HitTest(scene.points, rotation, scale, canvas.width, canvas.height,
            pos.x - rect.left, pos.y - rect.top)

\* `if (closestId)`: null and the empty string are falsy
Truthy(id) == id # Null /\ id # ""

Range(seq) == {seq[i] : i \in 1..Len(seq)}

\* the updater without its reset at two ids
MeasureUpdaterNoReset(prev, closestId) ==
    IF closestId \in Range(prev) THEN prev
    ELSE Append(prev, closestId)

\* the updater without its test for an id already held
MeasureUpdaterAllowsDup(prev, closestId) ==
    IF Len(prev) = 2 THEN <<closestId>>
    ELSE Append(prev, closestId)

\* the updater handed to setMeasurePoints
MeasureUpdater(prev, closestId) ==
    IF Len(prev) = 2 THEN <<closestId>>
    ELSE IF closestId \in Range(prev) THEN prev
    ELSE Append(prev, closestId)

\* selectedPointId after handleCanvasClick found closestId
ClickSelected(closestId) ==
    IF Truthy(closestId)
    THEN IF isMeasurementMode THEN selectedPointId ELSE closestId
    ELSE IF ~isMeasurementMode THEN Null ELSE selectedPointId

\* a click on empty space that also empties the pair
ClickMeasureClearsOnMiss(closestId) ==
    IF isMeasurementMode
    THEN IF Truthy(closestId)
         THEN MeasureUpdater(measurePoints, closestId)
         ELSE <<>>
    ELSE measurePoints

\* measurePoints after handleCanvasClick found closestId
ClickMeasure(closestId) ==
    IF Truthy(closestId) /\ isMeasurementMode
    THEN MeasureUpdater(measurePoints, closestId)
    ELSE measurePoints

\* whether the click hands setMeasurePoints a new array
ClickNewArray(closestId) ==
    /\ Truthy(closestId)
    /\ isMeasurementMode
    /\ (Len(measurePoints) = 2 \/ closestId \notin Range(measurePoints))

(***************************************************************************)
(* The render loop: one requestAnimationFrame(draw) per render in which a  *)
(* dependency of the effect changed.                                       *)
(***************************************************************************)

\* App before anything is sent: useState([]), useState(false)
InitialApp ==
    [messages |-> <<>>, isLoading |-> FALSE, inflight |-> {}, sent |-> 0,
     fresh |-> "none", last |-> "mount"]

\* no draw pass has run yet
NoPass == [v |-> 0]

\* no callback is kept
NoRaf == [tracked |-> FALSE, version |-> 0, queue |-> <<>>, ran |-> 0,
          shown |-> NoPass]

PendingBound == IF raf.tracked THEN MaxBurst ELSE MaxPending

CanRequest(changed) == changed => pending < PendingBound

\* a second request from the handler itself, besides the effect's
RequestTwice(changed) == pending' = IF changed THEN pending + 2 ELSE pending

Request(changed) == pending' = IF changed THEN pending + 1 ELSE pending

\* what handler op leaves in lastOp when it runs no hit test
NoHit(op) ==
    [op |-> op, moved2 |-> 0, hits |-> 0, closestId |-> Null, delta |-> 0]

NoProbe == [tested |-> FALSE, x |-> 0, y |-> 0, closestId |-> Null]

(***************************************************************************)
(* Event handlers                                                          *)
(***************************************************************************)

handleMouseDown(pos) ==
    /\ isDragging' = TRUE
    /\ lastMouse' = pos
    /\ mouseDownPos' = pos
    /\ rotationAtDown' = rotation
    /\ lastOp' = NoHit("mouseDown")
    /\ UNCHANGED <<scene, rotation, scale, selectedPointId, isMeasurementMode,
                   measurePoints, canvas, container, pending, probe, surface,
                   ops>>

\* the deltas swapped: rotation.x by the horizontal, rotation.y by the
\* vertical delta
TurnedSwapped(pos) ==
    [x |-> rotation.x + (pos.x - lastMouse.x),
     y |-> rotation.y + (pos.y - lastMouse.y)]

\* rotation after a move to pos while dragging
Turned(pos) ==
    [x |-> rotation.x + (pos.y - lastMouse.y),
     y |-> rotation.y + (pos.x - lastMouse.x)]

InitialRotation == [x |-> -50, y |-> 50]

WithinTurn(rot) ==
    /\ rot.x - InitialRotation.x \in 0..MaxTurn
    /\ rot.y - InitialRotation.y \in 0..MaxTurn

handleMouseMove(pos) ==
    /\ IF ~isDragging
       THEN UNCHANGED <<rotation, lastMouse, pending, lastOp>>
       ELSE /\ WithinTurn(Turned(pos))
            /\ CanRequest(TRUE)
            /\ rotation' = Turned(pos)
            /\ lastMouse' = pos
            /\ Request(TRUE)
            /\ lastOp' = NoHit("mouseMove")
    /\ UNCHANGED <<scene, scale, isDragging, mouseDownPos, selectedPointId,
                   isMeasurementMode, measurePoints, canvas, container, probe,
                   surface, ops, rotationAtDown>>

\* square of moveDist
MoveDist2(pos) ==
    (pos.x - mouseDownPos.x) * (pos.x - mouseDownPos.x)
        + (pos.y - mouseDownPos.y) * (pos.y - mouseDownPos.y)

\* the threshold test with <= for <
IsClickInclusive(pos) == MoveDist2(pos) <= DragThreshold * DragThreshold

IsClick(pos) == MoveDist2(pos) < DragThreshold * DragThreshold

\* handleCanvasClick without its guard on the canvas element
handleCanvasClickUnguarded(closestId, op, moved2) ==
    LET changed == \/ ClickSelected(closestId) # selectedPointId
                   \/ ClickNewArray(closestId)
    IN  /\ CanRequest(changed)
        /\ selectedPointId' = ClickSelected(closestId)
        /\ measurePoints' = ClickMeasure(closestId)
        /\ Request(changed)
        /\ lastOp' = [NoHit(op) EXCEPT !.moved2 = moved2, !.hits = 1,
                                       !.closestId = closestId]

\* handleCanvasClick: nothing without a canvas element; otherwise the state
\* changes once the loop has left closestId
handleCanvasClick(closestId, op, moved2) ==
    LET changed == \/ ClickSelected(closestId) # selectedPointId
                   \/ ClickNewArray(closestId)
    IN  IF surface = "noCanvas"
        THEN /\ lastOp' = [NoHit(op) EXCEPT !.moved2 = moved2]
             /\ UNCHANGED <<selectedPointId, measurePoints, pending>>
        ELSE /\ CanRequest(changed)
             /\ selectedPointId' = ClickSelected(closestId)
             /\ measurePoints' = ClickMeasure(closestId)
             /\ Request(changed)
             /\ lastOp' = [NoHit(op) EXCEPT !.moved2 = moved2, !.hits = 1,
                                            !.closestId = closestId]

\* handleMouseUp that ends the drag only when the gesture was a click
handleMouseUpKeepsDrag(pos, op) ==
    /\ isDragging' = IF IsClick(pos) THEN FALSE ELSE isDragging
    /\ IF IsClick(pos)
       THEN \E closestId \in {ClosestId(pos)} :
                handleCanvasClick(closestId, op, MoveDist2(pos))
       ELSE /\ lastOp' = [NoHit(op) EXCEPT !.moved2 = MoveDist2(pos)]
            /\ UNCHANGED <<selectedPointId, measurePoints, pending>>
    /\ UNCHANGED <<scene, rotation, scale, lastMouse, mouseDownPos,
                   isMeasurementMode, canvas, container, probe,
                   surface, ops, rotationAtDown>>

\* handleMouseUp, bound to onMouseUp and to onMouseLeave (op names which)
handleMouseUp(pos, op) ==
    /\ isDragging' = FALSE
    /\ IF IsClick(pos)
       THEN \E closestId \in {ClosestId(pos)} :
                handleCanvasClick(closestId, op, MoveDist2(pos))
       ELSE /\ lastOp' = [NoHit(op) EXCEPT !.moved2 = MoveDist2(pos)]
            /\ UNCHANGED <<selectedPointId, measurePoints, pending>>
    /\ UNCHANGED <<scene, rotation, scale, lastMouse, mouseDownPos,
                   isMeasurementMode, canvas, container, probe,
                   surface, ops, rotationAtDown>>

Max(a, b) == IF a > b THEN a ELSE b

Min(a, b) == IF a < b THEN a ELSE b

MinScale == 200

MaxScale == 5000

\* the clamp without its lower bound
ZoomedNoFloor(prev, delta) == Min(MaxScale, prev - delta)

\* the wheel delta added, not subtracted
ZoomedInverted(prev, delta) == Max(MinScale, Min(MaxScale, prev + delta))

\* scale after a wheel event with deltaY = delta
Zoomed(prev, delta) == Max(MinScale, Min(MaxScale, prev - delta))

handleWheel(delta) ==
    /\ CanRequest(Zoomed(scale, delta) # scale)
    /\ scale' = Zoomed(scale, delta)
    /\ Request(Zoomed(scale, delta) # scale)
    /\ lastOp' = [NoHit("wheel") EXCEPT !.delta = delta]
    /\ UNCHANGED <<scene, rotation, isDragging, lastMouse, mouseDownPos,
                   selectedPointId, isMeasurementMode, measurePoints, canvas,
                   container, probe,
                   surface, ops, rotationAtDown>>

\* the toggle without the reset of selectedPointId
toggleKeepsSelection ==
    /\ CanRequest(TRUE)
    /\ isMeasurementMode' = ~isMeasurementMode
    /\ measurePoints' = <<>>
    /\ Request(TRUE)
    /\ lastOp' = NoHit("measureButton")
    /\ UNCHANGED <<scene, rotation, scale, isDragging, lastMouse,
                   mouseDownPos, selectedPointId, canvas, container, probe,
                   surface, ops, rotationAtDown>>

\* the toggle without the reset of measurePoints
toggleKeepsPair ==
    /\ CanRequest(TRUE)
    /\ isMeasurementMode' = ~isMeasurementMode
    /\ selectedPointId' = IF ~isMeasurementMode THEN Null ELSE selectedPointId
    /\ Request(TRUE)
    /\ lastOp' = NoHit("measureButton")
    /\ UNCHANGED <<scene, rotation, scale, isDragging, lastMouse,
                   mouseDownPos, measurePoints, canvas, container, probe,
                   surface, ops, rotationAtDown>>

\* the Measure Distance button
toggleMeasurementMode ==
    LET newMode == ~isMeasurementMode
    IN  /\ CanRequest(TRUE)
        /\ isMeasurementMode' = newMode
        /\ measurePoints' = <<>>
        /\ selectedPointId' = IF newMode THEN Null ELSE selectedPointId
        /\ Request(TRUE)
        /\ lastOp' = NoHit("measureButton")
        /\ UNCHANGED <<scene, rotation, scale, isDragging, lastMouse,
                       mouseDownPos, canvas, container, probe,
                   surface, ops, rotationAtDown>>

\* the Select Mode button
selectMode ==
    /\ CanRequest(TRUE)
    /\ isMeasurementMode' = FALSE
    /\ measurePoints' = <<>>
    /\ selectedPointId' = Null
    /\ Request(TRUE)
    /\ lastOp' = NoHit("selectButton")
    /\ UNCHANGED <<scene, rotation, scale, isDragging, lastMouse,
                   mouseDownPos, canvas, container, probe,
                   surface, ops, rotationAtDown>>

\* a scene replacement that also drops the selection and the pair
setSceneClearsSelection(s) ==
    /\ CanRequest(TRUE)
    /\ scene' = s
    /\ selectedPointId' = Null
    /\ measurePoints' = <<>>
    /\ Request(TRUE)
    /\ lastOp' = NoHit("setScene")
    /\ UNCHANGED <<rotation, scale, isDragging, lastMouse, mouseDownPos,
                   isMeasurementMode, canvas, container, probe,
                   surface, ops, rotationAtDown>>

\* App hands the canvas a new scene object
setScene(s) ==
    /\ CanRequest(TRUE)
    /\ scene' = s
    /\ Request(TRUE)
    /\ lastOp' = NoHit("setScene")
    /\ UNCHANGED <<rotation, scale, isDragging, lastMouse, mouseDownPos,
                   selectedPointId, isMeasurementMode, measurePoints, canvas,
                   container, probe,
                   surface, ops, rotationAtDown>>

\* the layout gives the container another size
resize(size) ==
    /\ size # container
    /\ container' = size
    /\ lastOp' = NoHit("resize")
    /\ UNCHANGED <<scene, rotation, scale, isDragging, lastMouse, mouseDownPos,
                   selectedPointId, isMeasurementMode, measurePoints, canvas,
                   pending, probe,
                   surface, ops, rotationAtDown>>

(***************************************************************************)
(* draw: the canvas calls of one pass, in the order made.  A call is       *)
(* recorded as its layer, its kind, the id (or text) it is about, an index *)
(* or number, and the screen positions a and b it is made at.              *)
(***************************************************************************)

Op(layer, kind, id, idx, a, b) ==
    [layer |-> layer, kind |-> kind, id |-> id, idx |-> idx, a |-> a, b |-> b]

\* ids of the points of scene s
PointIds(s) == {s.points[i].id : i \in 1..Len(s.points)}

\* projectedPoints.get(id): Map.set keeps the last point of an id
Projected(id, w, h) ==
    LET last == CHOOSE i \in 1..Len(scene.points) :
                    /\ scene.points[i].id = id
                    /\ \A j \in (i + 1)..Len(scene.points) :
                           scene.points[j].id # id
        proj == project(scene.points[last], rotation, scale, w, h)
    IN  XY(proj.x, proj.y)

\* scene.points.find(p => p.id === id): the first point of an id
Find(id) ==
    scene.points[CHOOSE i \in 1..Len(scene.points) :
                     /\ scene.points[i].id = id
                     /\ \A j \in 1..(i - 1) : scene.points[j].id # id]

\* project of a point made up by draw (grid, axes)
Screen(x, y, z, w, h) ==
    LET proj == project(Pt("", x, y, z), rotation, scale, w, h)
    IN  XY(proj.x, proj.y)

GridSize == 10

AxisLength == 3

\* the grid of the XZ plane: for i = -10 .. 10 a line along z, then one
\* along x
GridOps(w, h) ==
    [k \in 1..(2 * (2 * GridSize + 1)) |->
        LET i == ((k + 1) \div 2) - GridSize - 1
        IN  IF k % 2 = 1
            THEN Op("grid", "line", "", k,
                    Screen(i, 0, -GridSize, w, h), Screen(i, 0, GridSize, w, h))
            ELSE Op("grid", "line", "", k,
                    Screen(-GridSize, 0, i, w, h), Screen(GridSize, 0, i, w, h))]

\* each axis: its line from the projected origin, then its letter
AxesOps(w, h) ==
    LET pOrigin == Screen(0, 0, 0, w, h)
        pX == Screen(AxisLength, 0, 0, w, h)
        pY == Screen(0, AxisLength, 0, w, h)
        pZ == Screen(0, 0, AxisLength, w, h)
    IN  <<Op("axes", "line", "X", 1, pOrigin, pX),
          Op("axes", "text", "X", 1, XY(pX.x + 100, pX.y), XY(pX.x + 100, pX.y)),
          Op("axes", "line", "Y", 2, pOrigin, pY),
          Op("axes", "text", "Y", 2, XY(pY.x, pY.y - 120), XY(pY.x, pY.y - 120)),
          Op("axes", "line", "Z", 3, pOrigin, pZ),
          Op("axes", "text", "Z", 3, XY(pZ.x + 100, pZ.y), XY(pZ.x + 100, pZ.y))>>

\* the test on a segment that looks up its source only
HasSource(seg) == seg.sourceId \in PointIds(scene)

\* `if (p1 && p2)`: both ends of the segment are in projectedPoints
HasBoth(seg) ==
    /\ seg.sourceId \in PointIds(scene)
    /\ seg.targetId \in PointIds(scene)

\* what the Map gives for an id, or a stand-in position where it has none
Looked(id, w, h) ==
    IF id \in PointIds(scene) THEN Projected(id, w, h) ELSE XY(0, 0)

\* scene.segments.forEach from index i on
RECURSIVE SegmentOps(_, _, _)
SegmentOps(i, w, h) ==
    IF i > Len(scene.segments) THEN <<>>
    ELSE LET seg == scene.segments[i]
         IN  (IF HasBoth(seg)
              THEN <<Op("segments", seg.style, seg.sourceId, i,
                        Looked(seg.sourceId, w, h), Looked(seg.targetId, w, h))>>
              ELSE <<>>) \o SegmentOps(i + 1, w, h)

\* the distance in hundredths, measured on the screen at the current zoom
getDistanceZoomed(p1, p2) ==
    LET d2 == (p2.x - p1.x) * (p2.x - p1.x) + (p2.y - p1.y) * (p2.y - p1.y)
                  + (p2.z - p1.z) * (p2.z - p1.z)
        n  == 400 * d2 * (scale \div 100) * (scale \div 100)
    IN  CHOOSE r \in 0..4000 :
            (2 * r - 1) * (2 * r - 1) <= n /\ n < (2 * r + 1) * (2 * r + 1)

\* getDistance(p1, p2).toFixed(2), in hundredths: the square root rounded
\* to the nearest hundredth
getDistance(p1, p2) ==
    LET d2 == (p2.x - p1.x) * (p2.x - p1.x) + (p2.y - p1.y) * (p2.y - p1.y)
                  + (p2.z - p1.z) * (p2.z - p1.z)
    IN  CHOOSE r \in 0..4000 :
            /\ (2 * r - 1) * (2 * r - 1) <= 40000 * d2
            /\ 40000 * d2 < (2 * r + 1) * (2 * r + 1)

\* the measurement layer that draws nothing unless both ids resolve
MeasureOpsPairOnly(w, h) ==
    LET n   == Len(measurePoints)
        ok  == /\ n > 1
               /\ measurePoints[1] \in PointIds(scene)
               /\ measurePoints[2] \in PointIds(scene)
        id1 == Find(measurePoints[1]).id
        id2 == Find(measurePoints[2]).id
        mid == XY(Quot(Projected(id1, w, h).x + Projected(id2, w, h).x, 2),
                  Quot(Projected(id1, w, h).y + Projected(id2, w, h).y, 2))
    IN  IF ok
        THEN <<Op("measure", "connector", id1, 0,
                  Projected(id1, w, h), Projected(id2, w, h)),
               Op("measure", "badge", id1,
                  getDistance(Find(measurePoints[1]), Find(measurePoints[2])),
                  mid, mid),
               Op("measure", "ring", id1, 1,
                  Projected(id1, w, h), Projected(id1, w, h)),
               Op("measure", "ring", id2, 2,
                  Projected(id2, w, h), Projected(id2, w, h))>>
        ELSE <<>>

\* the measurement layer: connector and distance badge for two resolved
\* ids, then a ring around each resolved one
MeasureOps(w, h) ==
    LET n   == Len(measurePoints)
        ok1 == n > 0 /\ measurePoints[1] \in PointIds(scene)
        ok2 == n > 1 /\ measurePoints[2] \in PointIds(scene)
        id1 == Find(measurePoints[1]).id
        id2 == Find(measurePoints[2]).id
        mid == XY(Quot(Projected(id1, w, h).x + Projected(id2, w, h).x, 2),
                  Quot(Projected(id1, w, h).y + Projected(id2, w, h).y, 2))
    IN  (IF ok1 /\ ok2
         THEN <<Op("measure", "connector", id1, 0,
                   Projected(id1, w, h), Projected(id2, w, h)),
                Op("measure", "badge", id1,
                   getDistance(Find(measurePoints[1]), Find(measurePoints[2])),
                   mid, mid)>>
         ELSE <<>>)
        \o (IF ok1
            THEN <<Op("measure", "ring", id1, 1,
                      Projected(id1, w, h), Projected(id1, w, h))>>
            ELSE <<>>)
        \o (IF ok2
            THEN <<Op("measure", "ring", id2, 2,
                      Projected(id2, w, h), Projected(id2, w, h))>>
            ELSE <<>>)

\* `p.id === selectedPointId && !isMeasurementMode`
IsSelected(p) == p.id = selectedPointId /\ ~isMeasurementMode

\* the points layer without a dot for the points of the pair
RECURSIVE PointOpsSkipPair(_, _, _)
PointOpsSkipPair(i, w, h) ==
    IF i > Len(scene.points) THEN <<>>
    ELSE LET p == scene.points[i]
         IN  (IF IsSelected(p) \/ p.id \in Range(measurePoints)
              THEN <<>>
              ELSE <<Op("points", "yellow", p.id, i,
                        Projected(p.id, w, h), Projected(p.id, w, h))>>)
             \o PointOpsSkipPair(i + 1, w, h)

\* the points layer, scene.points.forEach from index i on: a dot for every
\* point but the selected one, cyan for an id of the pair, else yellow
RECURSIVE PointOps(_, _, _)
PointOps(i, w, h) ==
    IF i > Len(scene.points) THEN <<>>
    ELSE LET p == scene.points[i]
         IN  (IF IsSelected(p)
              THEN <<>>
              ELSE <<Op("points",
                        IF p.id \in Range(measurePoints) THEN "cyan"
                                                          ELSE "yellow",
                        p.id, i, Projected(p.id, w, h), Projected(p.id, w, h))>>)
             \o PointOps(i + 1, w, h)

\* the top layer: glow, ring, dot, leader line and tooltip of the point the
\* points loop saved last
SelectedOps(w, h) ==
    IF \E i \in 1..Len(scene.points) : IsSelected(scene.points[i])
    THEN LET at  == Projected(selectedPointId, w, h)
             box == XY(at.x + 200, at.y - 200 - 160)
         IN  <<Op("selected", "glow", selectedPointId, 0, at, at),
               Op("selected", "ring", selectedPointId, 0, at, at),
               Op("selected", "dot", selectedPointId, 0, at, at),
               Op("selected", "leader", selectedPointId, 0,
                  XY(at.x + 60, at.y - 60), XY(box.x, box.y + 160)),
               Op("selected", "tooltip", selectedPointId, 0, box, box)>>
    ELSE <<>>

\* the layers with the points drawn under the segments
LayersPointsFirst(w, h) ==
    GridOps(w, h) \o AxesOps(w, h) \o PointOps(1, w, h) \o SegmentOps(1, w, h)
        \o MeasureOps(w, h) \o SelectedOps(w, h)

\* the layers of a pass on a canvas of w by h, back to front
Layers(w, h) ==
    GridOps(w, h) \o AxesOps(w, h) \o SegmentOps(1, w, h) \o MeasureOps(w, h)
        \o PointOps(1, w, h) \o SelectedOps(w, h)

\* the canvas calls of draw: none when a guard returns, else the resize,
\* the clear, and the layers projected for the new size
DrawOps ==
    IF surface # "ok" THEN <<>>
    ELSE LET w == container.clientWidth
             h == container.clientHeight
         IN  <<Op("resize", "size", "", 0, XY(w, h), XY(w, h)),
               Op("clear", "rect", "", 0, XY(0, 0), XY(w, h))>> \o Layers(w, h)
\* returned at one of its two guards
Resized ==
    IF surface = "ok"
    THEN [width |-> container.clientWidth, height |-> container.clientHeight]
    ELSE canvas

\* the next frame: every waiting callback runs draw
frame ==
    /\ pending > 0
    /\ pending' = 0
    /\ canvas' = Resized
    /\ lastOp' = NoHit("frame")
    /\ UNCHANGED <<scene, rotation, scale, isDragging, lastMouse, mouseDownPos,
                   selectedPointId, isMeasurementMode, measurePoints,
                   container, probe,
                   surface, ops, rotationAtDown>>

\* the next frame, with the canvas calls of its draw pass kept in ops
drawPass ==
    /\ pending > 0
    /\ pending' = 0
    /\ canvas' = Resized
    /\ ops' = DrawOps
    /\ lastOp' = NoHit("frame")
    /\ UNCHANGED <<scene, rotation, scale, isDragging, lastMouse, mouseDownPos,
                   selectedPointId, isMeasurementMode, measurePoints,
                   container, probe, surface, rotationAtDown>>

(***************************************************************************)
(* The component after mounting, and its events                            *)
(***************************************************************************)

Init ==
    /\ scene = EmptyScene
    /\ rotation = InitialRotation
    /\ scale = 1000
    /\ isDragging = FALSE
    /\ lastMouse = XY(0, 0)
    /\ mouseDownPos = XY(0, 0)
    /\ selectedPointId = Null
    /\ isMeasurementMode = FALSE
    /\ measurePoints = <<>>
    /\ canvas = DefaultCanvas
    /\ container = [clientWidth |-> 400, clientHeight |-> 300]
    /\ pending = 1
    /\ lastOp = NoHit("mount")
    /\ probe = NoProbe
    /\ surface = "ok"
    /\ ops = <<>>
    /\ rotationAtDown = rotation
    /\ raf = NoRaf
    /\ app = InitialApp

MouseDown ==
    /\ \E pos \in Positions : handleMouseDown(pos)
    /\ UNCHANGED <<raf, app>>

MouseMove ==
    /\ \E pos \in Positions : handleMouseMove(pos)
    /\ UNCHANGED <<raf, app>>

MouseUp ==
    /\ \E pos \in Positions : handleMouseUp(pos, "mouseUp")
    /\ UNCHANGED <<raf, app>>

MouseLeave ==
    /\ \E pos \in LeavePositions : handleMouseUp(pos, "mouseLeave")
    /\ UNCHANGED <<raf, app>>

Wheel ==
    /\ \E delta \in WheelDeltas : handleWheel(delta)
    /\ UNCHANGED <<raf, app>>

MeasureButton == toggleMeasurementMode /\ UNCHANGED <<raf, app>>

SelectButton == selectMode /\ UNCHANGED <<raf, app>>

ReplaceScene ==
    /\ \E s \in Scenes : setScene(s)
    /\ UNCHANGED <<raf, app>>

Resize ==
    /\ \E size \in ContainerSizes : resize(size)
    /\ UNCHANGED <<raf, app>>

Frame == frame /\ UNCHANGED <<raf, app>>

Next ==
    \/ MouseDown
    \/ MouseMove
    \/ MouseUp
    \/ MouseLeave
    \/ Wheel
    \/ MeasureButton
    \/ SelectButton
    \/ ReplaceScene
    \/ Resize
    \/ Frame

Spec == Init /\ [][Next]_vars

(***************************************************************************)
(* Dragging: the same component and handlers, the pointer moving among     *)
(* four neighbouring pixels, so that moves with a horizontal delta alone,  *)
(* a vertical delta alone and both occur within one drag.  The scene stays *)
(* the empty one of the start.                                             *)
(***************************************************************************)

DragPositions == {XY(603, 153), XY(603, 154), XY(604, 153), XY(604, 154)}

DragDown ==
    /\ \E pos \in DragPositions : handleMouseDown(pos)
    /\ UNCHANGED <<raf, app>>

DragMove ==
    /\ \E pos \in DragPositions : handleMouseMove(pos)
    /\ UNCHANGED <<raf, app>>

DragUp ==
    /\ \E pos \in DragPositions : handleMouseUp(pos, "mouseUp")
    /\ UNCHANGED <<raf, app>>

NextDrag ==
    \/ DragDown
    \/ DragMove
    \/ DragUp
    \/ MouseLeave
    \/ Wheel
    \/ MeasureButton
    \/ SelectButton
    \/ Frame

DragSpec == Init /\ [][NextDrag]_vars

(***************************************************************************)
(* Drawing: a draw pass, a click and a wheel event on the component in a   *)
(* state drawn from sets: the scene, the camera, the mode with its         *)
(* selection or pair (ids of the scene and ids it lacks), the container    *)
(* size, and the surface as found behind canvasRef.                        *)
(***************************************************************************)

\* the square A-B-C-D-A in the XZ plane, a segment to a missing point
\* among its sides
SceneSquare ==
    [points   |-> <<Pt("A", 0, 0, 0), Pt("B", 2, 0, 0), Pt("C", 2, 0, 2),
                    Pt("D", 0, 0, 2)>>,
     segments |-> <<Seg("A", "B", "solid"), Seg("B", "C", "solid"),
                    Seg("C", "Z", "dashed"), Seg("C", "D", "solid"),
                    Seg("D", "A", "solid")>>]

\* two points at distance 5
ScenePair ==
    [points   |-> <<Pt("A", 0, 0, 0), Pt("B", 3, 4, 0)>>,
     segments |-> <<Seg("A", "B", "dashed")>>]

DrawScenes == {SceneSquare, ScenePair}

DrawRotations == {InitialRotation, [x |-> 30, y |-> -80]}

DrawScales == {1000, MaxScale}

\* a selected id or none in detail mode, a pair in measurement mode
DrawSelections ==
    {[mode |-> FALSE, selected |-> id, pair |-> <<>>] : id \in {Null, "A", "Z"}}
    \cup {[mode |-> TRUE, selected |-> Null, pair |-> pair] :
              pair \in {<<"A", "B">>, <<"Z", "B">>}}

Surfaces == {"ok", "noContext", "noCanvas"}

\* the centre of the 400 x 300 canvas and of the 300 x 150 canvas
ClickPositions == {XY(600, 150), XY(550, 75)}

InitDraw ==
    /\ scene \in DrawScenes
    /\ rotation \in DrawRotations
    /\ scale \in DrawScales
    /\ isDragging = FALSE
    /\ lastMouse = XY(0, 0)
    /\ mouseDownPos = XY(0, 0)
    /\ \E sel \in DrawSelections :
           /\ isMeasurementMode = sel.mode
           /\ selectedPointId = sel.selected
           /\ measurePoints = sel.pair
    /\ canvas = DefaultCanvas
    /\ container \in ContainerSizes
    /\ pending = 1
    /\ lastOp = NoHit("mount")
    /\ probe = NoProbe
    /\ surface \in Surfaces
    /\ ops = <<>>
    /\ rotationAtDown = rotation
    /\ raf = NoRaf
    /\ app = InitialApp

ClickDown ==
    /\ \E pos \in ClickPositions : handleMouseDown(pos)
    /\ UNCHANGED <<raf, app>>

ClickUp ==
    /\ \E pos \in ClickPositions : handleMouseUp(pos, "mouseUp")
    /\ UNCHANGED <<raf, app>>

DrawPass == drawPass /\ UNCHANGED <<raf, app>>

NextDraw ==
    \/ ClickDown
    \/ ClickUp
    \/ Wheel
    \/ DrawPass

DrawSpec == InitDraw /\ [][NextDraw]_vars

(***************************************************************************)
(* The hit test alone: the camera, the canvas size and the scene are drawn *)
(* from sets, and each step runs the loop of handleCanvasClick for one     *)
(* click position (canvas pixels).                                         *)
(***************************************************************************)

\* two points that project to the same place
SceneTwin ==
    [points   |-> <<Pt("P", 0, 1, 0), Pt("Q", 0, 1, 0), Pt("A", 0, 0, 0)>>,
     segments |-> <<>>]

ProbeScenes == Scenes \cup {SceneTwin}

ProbeRotations == {InitialRotation, [x |-> 0, y |-> 0], [x |-> 30, y |-> -80]}

ProbeScales == {MinScale, 1000, MaxScale}

ProbeCanvases == {DefaultCanvas, [width |-> 400, height |-> 300]}

\* around the centres (150, 75) and (200, 150): on a point, at 20 px from
\* it exactly ((20, 0), (12, 16), (0, 20)), and between two points
ProbeXs == {150, 170, 180, 188, 200, 203, 212, 220, 225}

ProbeYs == {55, 75, 125, 130, 137, 138, 145, 150, 166, 170}

InitHit ==
    /\ scene \in ProbeScenes
    /\ rotation \in ProbeRotations
    /\ scale \in ProbeScales
    /\ canvas \in ProbeCanvases
    /\ isDragging = FALSE
    /\ lastMouse = XY(0, 0)
    /\ mouseDownPos = XY(0, 0)
    /\ selectedPointId = Null
    /\ isMeasurementMode = FALSE
    /\ measurePoints = <<>>
    /\ container = [clientWidth |-> 400, clientHeight |-> 300]
    /\ pending = 1
    /\ lastOp = NoHit("mount")
    /\ probe = NoProbe
    /\ surface = "ok"
    /\ ops = <<>>
    /\ rotationAtDown = rotation
    /\ raf = NoRaf
    /\ app = InitialApp

HitProbe ==
    \E x \in ProbeXs, y \in ProbeYs :
        /\ ~probe.tested
        /\ probe' = [tested |-> TRUE, x |-> x, y |-> y,
                     closestId |-> HitTest(scene.points, rotation, scale,
                                           canvas.width, canvas.height, x, y)]
        /\ UNCHANGED <<scene, rotation, scale, isDragging, lastMouse,
                       mouseDownPos, selectedPointId, isMeasurementMode,
                       measurePoints, canvas, container, pending, lastOp,
                       surface, ops, rotationAtDown, raf, app>>

NextHit == HitProbe

HitSpec == InitHit /\ [][NextHit]_vars

(***************************************************************************)
(* The render loop callback by callback: each render in which a dependency *)
(* of the effect changed hands requestAnimationFrame the draw function of  *)
(* that render, which holds that render's state; the next frame runs the   *)
(* waiting callbacks in the order they were handed over.                   *)
(***************************************************************************)

\* what a draw function holds: the six dependencies as they were in render
\* number v
Closure(v, sc, rot, s, sel, pair, mode) ==
    [v |-> v, scene |-> sc, rotation |-> rot, scale |-> s,
     selectedPointId |-> sel, measurePoints |-> pair,
     isMeasurementMode |-> mode]

\* the draw function of the current render
Current ==
    Closure(raf.version, scene, rotation, scale, selectedPointId,
            measurePoints, isMeasurementMode)

\* a callback list that puts the latest request first
EnqueueFront(queue, closure) == <<closure>> \o queue

\* requestAnimationFrame(draw): the callback goes to the end of the list
Enqueue(queue, closure) == Append(queue, closure)

\* the effect after a handler: it hands over the new render's draw when
\* the handler changed a dependency
Capture ==
    IF pending' > pending
    THEN /\ raf.version < MaxChanges
         /\ raf' = [raf EXCEPT
                       !.version = @ + 1,
                       !.queue = Enqueue(@, Closure(raf.version + 1, scene',
                                                    rotation', scale',
                                                    selectedPointId',
                                                    measurePoints',
                                                    isMeasurementMode'))]
    ELSE raf' = raf

\* the callbacks of queue run from the first on, each draw clearing the
\* canvas: what the canvas shows in the end
RECURSIVE RunCallbacks(_, _)
RunCallbacks(queue, shown) ==
    IF queue = <<>> THEN shown
    ELSE RunCallbacks(Tail(queue), Head(queue))

BurstPositions == {XY(600, 150), XY(601, 150)}

BurstScenes == {SceneABC, SceneAnon}

InitBurst ==
    /\ scene = EmptyScene
    /\ rotation = InitialRotation
    /\ scale = 1000
    /\ isDragging = FALSE
    /\ lastMouse = XY(0, 0)
    /\ mouseDownPos = XY(0, 0)
    /\ selectedPointId = Null
    /\ isMeasurementMode = FALSE
    /\ measurePoints = <<>>
    /\ canvas = DefaultCanvas
    /\ container = [clientWidth |-> 400, clientHeight |-> 300]
    /\ pending = 1
    /\ lastOp = NoHit("mount")
    /\ probe = NoProbe
    /\ surface = "ok"
    /\ ops = <<>>
    /\ rotationAtDown = rotation
    /\ raf = [tracked |-> TRUE, version |-> 1,
              queue |-> <<Closure(1, EmptyScene, InitialRotation, 1000, Null,
                                  <<>>, FALSE)>>,
              ran |-> 0, shown |-> NoPass]
    /\ app = InitialApp

BurstDown ==
    /\ \E pos \in BurstPositions : handleMouseDown(pos)
    /\ Capture
    /\ UNCHANGED app

BurstMove ==
    /\ \E pos \in BurstPositions : handleMouseMove(pos)
    /\ Capture
    /\ UNCHANGED app

BurstUp ==
    /\ \E pos \in BurstPositions : handleMouseUp(pos, "mouseUp")
    /\ Capture
    /\ UNCHANGED app

BurstWheel ==
    /\ \E delta \in WheelDeltas : handleWheel(delta)
    /\ Capture
    /\ UNCHANGED app

BurstMeasure == toggleMeasurementMode /\ Capture /\ UNCHANGED app

BurstScene ==
    /\ \E s \in BurstScenes : setScene(s)
    /\ Capture
    /\ UNCHANGED app

\* the next frame: the waiting callbacks run, first to last
BurstFrame ==
    /\ frame
    /\ raf' = [raf EXCEPT !.queue = <<>>,
                          !.ran = Len(raf.queue),
                          !.shown = RunCallbacks(raf.queue, raf.shown)]
    /\ UNCHANGED app

NextBurst ==
    \/ BurstDown
    \/ BurstMove
    \/ BurstUp
    \/ BurstWheel
    \/ BurstMeasure
    \/ BurstScene
    \/ BurstFrame

\* the browser runs the waiting callbacks at the next frame
FrameSpec == InitBurst /\ [][NextBurst]_vars /\ WF_vars(BurstFrame)

(***************************************************************************)
(* App.tsx: the transcript, the loading flag and the requests to the       *)
(* model.  handleSendMessage runs up to its await in the step of the send  *)
(* and from the await on in a later step, when the request settles.        *)
(***************************************************************************)

\* at most MaxSends messages are sent
MaxSends == 2

\* the messages of request id (ids stand for the Date.now() strings)
UserMsg(id) == [id |-> id, role |-> "user", content |-> "text"]

AiMsg(id) == [id |-> id, role |-> "model", content |-> "explanation"]

ErrorMsg(id) == [id |-> id, role |-> "model", content |-> "Sorry"]

\* what sendMessageToGemini settles with: a result with a geometry object,
\* a result without one (also the text that is no JSON), or a rejection
\* (geometry stands for result.geometry where hasGeometry holds)
Failure == [failed |-> TRUE, hasGeometry |-> FALSE, geometry |-> EmptyScene]

Outcomes ==
    {[failed |-> FALSE, hasGeometry |-> TRUE, geometry |-> SceneABC],
     [failed |-> FALSE, hasGeometry |-> FALSE, geometry |-> EmptyScene],
     Failure}

\* a session saved by an earlier run, read from local storage on mount
Session == [messages |-> <<UserMsg(0), AiMsg(0)>>, scene |-> SceneAnon]

\* everything but app
canvasVars ==
    <<scene, rotation, scale, isDragging, lastMouse, mouseDownPos,
      selectedPointId, isMeasurementMode, measurePoints, canvas, container,
      pending, lastOp, probe, surface, ops, rotationAtDown, raf>>

\* handleSendMessage up to the await: the user's message, isLoading, and
\* the request goes out
handleSendMessage(id) ==
    /\ app' = [app EXCEPT !.messages = Append(@, UserMsg(id)),
                          !.isLoading = TRUE,
                          !.inflight = @ \cup {id},
                          !.sent = id,
                          !.fresh = "none",
                          !.last = "send"]
    /\ UNCHANGED canvasVars

\* the rest of handleSendMessage with a catch block that also empties the
\* scene
settledClearsScene(id, outcome) ==
    /\ app' = [app EXCEPT
                  !.messages = Append(@, IF outcome.failed THEN ErrorMsg(id)
                                                          ELSE AiMsg(id)),
                  !.isLoading = FALSE,
                  !.inflight = @ \ {id},
                  !.last = IF outcome.failed THEN "failed"
                           ELSE IF outcome.hasGeometry THEN "geometry"
                           ELSE "explained"]
    /\ IF outcome.failed
       THEN setScene(EmptyScene) /\ UNCHANGED raf
       ELSE IF outcome.hasGeometry
       THEN setScene(outcome.geometry) /\ UNCHANGED raf
       ELSE UNCHANGED canvasVars

\* the rest of handleSendMessage, when the request of id settles: try,
\* catch and finally
settled(id, outcome) ==
    /\ app' = [app EXCEPT
                  !.messages = Append(@, IF outcome.failed THEN ErrorMsg(id)
                                                          ELSE AiMsg(id)),
                  !.isLoading = FALSE,
                  !.inflight = @ \ {id},
                  !.last = IF outcome.failed THEN "failed"
                           ELSE IF outcome.hasGeometry THEN "geometry"
                           ELSE "explained"]
    /\ IF ~outcome.failed /\ outcome.hasGeometry
       THEN setScene(outcome.geometry) /\ UNCHANGED raf
       ELSE UNCHANGED canvasVars

\* handleReset; confirmed is the answer to window.confirm
handleReset(confirmed) ==
    /\ app.messages = <<>> \/ confirmed
    /\ app' = [app EXCEPT !.messages = <<>>, !.fresh = "reset",
                          !.last = "reset"]
    /\ setScene(EmptyScene)
    /\ UNCHANGED raf

\* handleLoadSession; confirmed is the answer to window.confirm
handleLoadSession(session, confirmed) ==
    /\ app.messages = <<>> \/ confirmed
    /\ app' = [app EXCEPT !.messages = session.messages, !.fresh = "load",
                          !.last = "load"]
    /\ setScene(session.scene)
    /\ UNCHANGED raf

\* the form: handleSubmit returns while isLoading
Submit ==
    /\ ~app.isLoading
    /\ app.sent < MaxSends
    /\ handleSendMessage(app.sent + 1)

\* the two suggestion buttons, shown while the transcript is empty
Suggest ==
    /\ app.messages = <<>>
    /\ app.sent < MaxSends
    /\ handleSendMessage(app.sent + 1)

Settle == \E id \in app.inflight, outcome \in Outcomes : settled(id, outcome)

ResetWorkspace == \E confirmed \in BOOLEAN : handleReset(confirmed)

LoadSession == \E confirmed \in BOOLEAN : handleLoadSession(Session, confirmed)

AppFrame == frame /\ UNCHANGED <<raf, app>>

NextApp ==
    \/ Submit
    \/ Suggest
    \/ Settle
    \/ ResetWorkspace
    \/ LoadSession
    \/ AppFrame

AppSpec == Init /\ [][NextApp]_vars

(***************************************************************************)
(* Properties                                                              *)
(***************************************************************************)

\* C1: the camera scale is within [20, 500] (in tenths, [200, 5000]) in
\* every reachable state, whatever wheel and other events came before.
C1_ScaleClamped == 200 <= scale /\ scale <= 5000

\* a wheel event has brought the scale down to its lower bound
C1_Witness == lastOp.op = "wheel" /\ scale = MinScale

\* C2: detail selection and measurement selection never coexist: with
\* measurement mode on the selected point id is null, with it off the
\* measurement pair is empty.
C2_ModesExclusive ==
    /\ isMeasurementMode => selectedPointId = Null
    /\ ~isMeasurementMode => measurePoints = <<>>

\* a full pair is held in measurement mode
C2_Witness == isMeasurementMode /\ Len(measurePoints) = 2

\* C3: the measurement pair holds at most 2 point ids and no id twice.
C3_PairWellFormed ==
    /\ Len(measurePoints) <= 2
    /\ \A i, j \in 1..Len(measurePoints) :
           i # j => measurePoints[i] # measurePoints[j]

\* a click has completed a pair
C3_Witness == lastOp.hits = 1 /\ Len(measurePoints) = 2

\* C4: in measurement mode, a click that hits a point whose id the pair does
\* not hold appends the id to a pair of 0 or 1 ids and replaces a pair of 2
\* ids by the new id alone: [] -> [A] -> [A,B] -> [C] for clicks on three
\* distinct points A, B, C.
C4_Rollover ==
    [][(/\ lastOp'.hits = 1
        /\ isMeasurementMode
        /\ lastOp'.closestId # Null
        /\ lastOp'.closestId \notin Range(measurePoints))
       => measurePoints' = IF Len(measurePoints) = 2
                           THEN <<lastOp'.closestId>>
                           ELSE Append(measurePoints, lastOp'.closestId)]_vars

\* C5: after a press of the Measure button or of the Select button the
\* selected point id is null and the measurement pair is empty.
C5_ToggleClears ==
    lastOp.op \in {"measureButton", "selectButton"}
        => selectedPointId = Null /\ measurePoints = <<>>

\* the Measure button has just switched measurement mode off
C5_Witness == lastOp.op = "measureButton" /\ ~isMeasurementMode

\* C6: a pointer-up less than 5 px from its pointer-down runs the hit test
\* exactly once; a pointer-up 5 px or more from it (5 px included) runs no
\* hit test and changes neither the selection nor the measurement pair.
C6_ClickOrDrag ==
    [][lastOp'.op = "mouseUp" =>
           IF lastOp'.moved2 < 25
           THEN lastOp'.hits = 1
           ELSE /\ lastOp'.hits = 0
                /\ UNCHANGED <<selectedPointId, measurePoints,
                               isMeasurementMode>>]_vars

\* a pointer-up exactly 5 px from its pointer-down, a point being selected
C6_Witness ==
    /\ lastOp.op = "mouseUp"
    /\ lastOp.moved2 = 25
    /\ selectedPointId # Null

\* C7: in detail mode, a click whose hit test finds point p sets the
\* selection to p.id and leaves the measurement pair empty and the mode and
\* the camera unchanged.
C7_DetailClickSelects ==
    [][(/\ lastOp'.hits = 1
        /\ ~isMeasurementMode
        /\ lastOp'.closestId # Null)
       => /\ selectedPointId' = lastOp'.closestId
          /\ measurePoints' = <<>>
          /\ UNCHANGED <<isMeasurementMode, rotation, scale>>]_vars

\* C8: a click whose hit test finds no point sets the selection to null in
\* detail mode, and in measurement mode leaves the measurement pair, the
\* selection and the mode unchanged.
C8_EmptySpaceClick ==
    [][(lastOp'.hits = 1 /\ lastOp'.closestId = Null)
       => /\ UNCHANGED <<measurePoints, isMeasurementMode>>
          /\ IF isMeasurementMode
             THEN UNCHANGED selectedPointId
             ELSE selectedPointId' = Null]_vars

\* a click on empty space in measurement mode, a full pair still held
C8_Witness ==
    /\ lastOp.hits = 1
    /\ lastOp.closestId = Null
    /\ isMeasurementMode
    /\ Len(measurePoints) = 2

\* C9, as claimed: in measurement mode, a click that hits a point whose id
\* the pair already holds leaves the pair as it was, for a pair of one id
\* and for a pair of two.
C9_DuplicateNoOp ==
    [][(/\ lastOp'.hits = 1
        /\ isMeasurementMode
        /\ lastOp'.closestId \in Range(measurePoints))
       => measurePoints' = measurePoints]_vars

\* C9, amended: in measurement mode, a click that hits a point whose id the
\* pair already holds leaves a pair of one id as it was, and replaces a pair
\* of two ids by the clicked id alone.
C9_DuplicateNoOpOfOne ==
    [][(/\ lastOp'.hits = 1
        /\ isMeasurementMode
        /\ lastOp'.closestId \in Range(measurePoints))
       => measurePoints' = IF Len(measurePoints) = 2
                           THEN <<lastOp'.closestId>>
                           ELSE measurePoints]_vars

\* a click on the one point held has changed nothing and requested no frame
C9_Witness ==
    /\ lastOp.hits = 1
    /\ isMeasurementMode
    /\ measurePoints = <<lastOp.closestId>>
    /\ pending = 0

\* squared distance, tenths of a pixel, from the probed click to point i
ProbeDist2(i) ==
    Dist2(probe.x, probe.y,
          project(scene.points[i], rotation, scale, canvas.width, canvas.height))

\* C10: the hit test returns the id of a scene point projected at less than
\* 20 px from the click and with no other point projected strictly nearer,
\* and returns no point exactly when no scene point is projected at less
\* than 20 px (a point at exactly 20 px does not qualify).
C10_NearestWithinRadius ==
    probe.tested =>
        LET near == {i \in 1..Len(scene.points) : ProbeDist2(i) < 200 * 200}
        IN  /\ probe.closestId = Null <=> near = {}
            /\ probe.closestId # Null =>
                   \E i \in near :
                       /\ scene.points[i].id = probe.closestId
                       /\ \A j \in 1..Len(scene.points) :
                              ProbeDist2(j) >= ProbeDist2(i)

\* a later point of the scene was nearer than an earlier one within 20 px
C10_Witness ==
    /\ probe.tested
    /\ \E i, j \in 1..Len(scene.points) :
           /\ i < j
           /\ ProbeDist2(j) < ProbeDist2(i)
           /\ ProbeDist2(i) < 200 * 200
           /\ scene.points[j].id = probe.closestId

\* C11: replacing the scene changes only the scene: rotation, scale, drag
\* state, measurement mode, the selected point id and the measurement pair
\* are as before, also when the new scene no longer holds a selected or
\* measured id.
C11_SceneReplacementFrame ==
    [][lastOp'.op = "setScene"
       => UNCHANGED <<rotation, scale, isDragging, isMeasurementMode,
                      selectedPointId, measurePoints>>]_vars

\* the scene was replaced and the selected id is none of its points' ids
C11_Witness ==
    /\ lastOp.op = "setScene"
    /\ selectedPointId # Null
    /\ selectedPointId \notin PointIds(scene)

\* C16: a pointer-down leads to dragging, a pointer-up or pointer-leave to
\* idle however far the pointer moved, and no other event changes the drag
\* state.
C16_DragState ==
    [][IF lastOp'.op = "mouseDown" THEN isDragging'
       ELSE IF lastOp'.op \in {"mouseUp", "mouseLeave"} THEN ~isDragging'
       ELSE isDragging' = isDragging]_vars

\* a pointer-leave far from the pointer-down has ended the drag
C16_Witness ==
    /\ lastOp.op = "mouseLeave"
    /\ lastOp.moved2 >= 25
    /\ mouseDownPos # XY(0, 0)
    /\ ~isDragging

\* C19: no event handler draws (the canvas bitmap is sized only by the
\* frame callback), every handler that changes the scene, rotation, scale,
\* selected id, measurement pair or mode adds exactly one frame request,
\* and the frame callback runs all that wait.
C19_OneRequestPerChange ==
    [][IF lastOp'.op = "frame"
       THEN pending > 0 /\ pending' = 0
       ELSE /\ canvas' = canvas
            /\ <<scene, rotation, scale, selectedPointId, measurePoints,
                  isMeasurementMode>>' #
                <<scene, rotation, scale, selectedPointId, measurePoints,
                  isMeasurementMode>>
                => pending' = pending + 1]_vars

\* a click has changed the selection and one frame request waits, the
\* canvas bitmap still being the one of the last draw pass
C19_Witness ==
    /\ lastOp.op = "mouseUp"
    /\ lastOp.hits = 1
    /\ selectedPointId = lastOp.closestId
    /\ pending = 1
    /\ canvas.height # container.clientHeight

\* C20: a wheel event with delta D sets the scale to
\* min(500, max(20, scale - 0.1 * D)): a positive delta never raises it, a
\* negative delta never lowers it, a scale at a bound stays there when
\* pushed further, and rotation, drag state, selection, measurement pair and
\* mode are unchanged.
C20_WheelFormula ==
    [][lastOp'.op = "wheel" =>
           LET D == lastOp'.delta
               lifted == IF scale - D < 200 THEN 200 ELSE scale - D
           IN  /\ scale' = IF lifted > 5000 THEN 5000 ELSE lifted
               /\ D > 0 => scale' <= scale
               /\ D < 0 => scale' >= scale
               /\ (scale = 200 /\ D > 0) => scale' = 200
               /\ (scale = 5000 /\ D < 0) => scale' = 5000
               /\ UNCHANGED <<rotation, isDragging, selectedPointId,
                              measurePoints, isMeasurementMode>>]_vars

\* a wheel event pushed a scale at the upper bound further: no change, no
\* frame request
C20_Witness ==
    /\ lastOp.op = "wheel"
    /\ lastOp.delta < 0
    /\ scale = 5000
    /\ pending = 0

\* C17: rotation changes only on a pointer-move while dragging, each such
\* move adding 0.01 rad per pixel of the delta against the previous pointer
\* position (rotation.x by the vertical, rotation.y by the horizontal
\* delta); hence the rotation change since the pointer-down is 0.01 rad per
\* pixel of the displacement from the pointer-down position to the last
\* pointer position.
C17_RotationFollowsPointer ==
    /\ [][rotation' # rotation
           => /\ isDragging
              /\ lastOp'.op = "mouseMove"
              /\ rotation'.x - rotation.x = lastMouse'.y - lastMouse.y
              /\ rotation'.y - rotation.y = lastMouse'.x - lastMouse.x]_vars
    /\ [](/\ rotation.x - rotationAtDown.x = lastMouse.y - mouseDownPos.y
          /\ rotation.y - rotationAtDown.y = lastMouse.x - mouseDownPos.x)

\* a drag has gone right and then back down-left: two moves, the second
\* with a horizontal delta alone or with both deltas
C17_Witness ==
    /\ isDragging
    /\ lastOp.op = "mouseMove"
    /\ mouseDownPos = XY(603, 153)
    /\ lastMouse = XY(603, 154)
    /\ rotation = [x |-> rotationAtDown.x + 1, y |-> rotationAtDown.y]
    /\ rotationAtDown # InitialRotation

\* the last step was a draw pass that got past its guards: ops holds its
\* canvas calls, made for the state as it is
Drawn == lastOp.op = "frame" /\ surface = "ok"

\* indices of the scene's segments for which a line was drawn
DrawnSegments ==
    {ops[k].idx : k \in {j \in DOMAIN ops : ops[j].layer = "segments"}}

\* C12: a draw pass draws exactly the segments whose sourceId and targetId
\* both are ids of points of the scene, in the scene's order; a segment
\* with a missing end is skipped and stops neither the later segments nor
\* the later layers (every point of the scene still gets its dot).
C12_DanglingSegmentsSkipped ==
    Drawn =>
        /\ DrawnSegments =
               {i \in 1..Len(scene.segments) :
                    /\ scene.segments[i].sourceId \in PointIds(scene)
                    /\ scene.segments[i].targetId \in PointIds(scene)}
        /\ \A k \in 1..(Len(ops) - 1) :
               (ops[k].layer = "segments" /\ ops[k + 1].layer = "segments")
                   => ops[k].idx < ops[k + 1].idx
        /\ Cardinality(DrawnSegments) =
               Cardinality({k \in DOMAIN ops : ops[k].layer = "segments"})
        /\ \A i \in 1..Len(scene.points) :
               \E k \in DOMAIN ops :
                   /\ ops[k].layer \in {"points", "selected"}
                   /\ ops[k].id = scene.points[i].id

\* the square was drawn: its four sides, the segment to a missing point
\* among them skipped
C12_Witness ==
    /\ Drawn
    /\ scene = SceneSquare
    /\ DrawnSegments = {1, 2, 4, 5}

LayerRank(layer) ==
    CASE layer = "resize"   -> 1
      [] layer = "clear"    -> 2
      [] layer = "grid"     -> 3
      [] layer = "axes"     -> 4
      [] layer = "segments" -> 5
      [] layer = "measure"  -> 6
      [] layer = "points"   -> 7
      [] layer = "selected" -> 8

\* C13: a draw pass on an available surface first sizes the canvas to the
\* container, then clears it, then draws grid, axes, segments, measurement
\* overlay, points and the selected point's highlight and tooltip, each
\* layer complete before the next; every projection is made for the new
\* size (the axes start at its centre).
C13_FixedDrawOrder ==
    Drawn =>
        /\ ops[1].layer = "resize"
        /\ ops[1].a = XY(container.clientWidth, container.clientHeight)
        /\ canvas = [width |-> ops[1].a.x, height |-> ops[1].a.y]
        /\ ops[2].layer = "clear"
        /\ \A k \in 1..(Len(ops) - 1) :
               LayerRank(ops[k].layer) <= LayerRank(ops[k + 1].layer)
        /\ Cardinality({k \in DOMAIN ops : ops[k].layer = "grid"}) = 42
        /\ \A axis \in {"X", "Y", "Z"} :
               \E k \in DOMAIN ops :
                   /\ ops[k].layer = "axes"
                   /\ ops[k].kind = "line"
                   /\ ops[k].id = axis
                   /\ ops[k].a = XY(5 * container.clientWidth,
                                    5 * container.clientHeight)

\* the square was drawn with A selected, on a canvas the pass had to size:
\* the four sides come after the axes and before any point, the highlight
\* last
C13_Witness ==
    /\ Drawn
    /\ scene = SceneSquare
    /\ selectedPointId = "A"
    /\ ops[Len(ops)].layer = "selected"
    /\ Cardinality({k \in DOMAIN ops : ops[k].layer = "points"}) = 3
    /\ container.clientHeight = 344

\* C14: the distance on the badge is that of the two points' world
\* coordinates, rounded to a hundredth, whatever the rotation, the scale
\* and the canvas size; for A = (0,0,0) and B = (3,4,0) it is 5.00.
C14_DistanceFromWorld ==
    Drawn =>
        \A k \in DOMAIN ops :
            ops[k].kind = "badge" =>
                LET p  == Find(measurePoints[1])
                    q  == Find(measurePoints[2])
                    d2 == (q.x - p.x) * (q.x - p.x) + (q.y - p.y) * (q.y - p.y)
                              + (q.z - p.z) * (q.z - p.z)
                    r  == ops[k].idx
                IN  /\ (2 * r - 1) * (2 * r - 1) <= 40000 * d2
                    /\ 40000 * d2 < (2 * r + 1) * (2 * r + 1)
                    /\ scene = ScenePair => r = 500

\* the badge between A and B read 5.00 with the camera turned and zoomed
\* to the upper bound
C14_Witness ==
    /\ Drawn
    /\ scene = ScenePair
    /\ scale = 5000
    /\ rotation # InitialRotation
    /\ \E k \in DOMAIN ops : ops[k].kind = "badge" /\ ops[k].idx = 500

\* C15: project puts the origin (0,0,0) at the centre of the viewport,
\* (width / 2, height / 2), for every rotation, scale and viewport size.
C15_OriginAtCentre ==
    LET proj == project(Pt("origin", 0, 0, 0), rotation, scale,
                        canvas.width, canvas.height)
    IN  proj.x = 5 * canvas.width /\ proj.y = 5 * canvas.height

\* a click at the centre of the canvas hit the point at the origin, the
\* camera turned and zoomed to the upper bound
C15_Witness ==
    /\ probe.tested
    /\ probe.closestId = "A"
    /\ 2 * probe.x = canvas.width
    /\ 2 * probe.y = canvas.height
    /\ scale = 5000
    /\ rotation = [x |-> 30, y |-> -80]

\* C18, as claimed: without a canvas element or without its 2D context, a
\* draw pass makes no canvas call and a pointer-up leaves the selection and
\* the measurement pair as they were.
C18_UnavailableSurface ==
    [][surface # "ok" =>
           /\ lastOp'.op = "frame" => ops' = <<>> /\ canvas' = canvas
           /\ lastOp'.op = "mouseUp"
                  => UNCHANGED <<selectedPointId, measurePoints>>]_vars

\* C18, amended: without a canvas element or without its 2D context, a
\* draw pass makes no canvas call; without a canvas element a pointer-up
\* runs no hit test and leaves the selection and the measurement pair as
\* they were.
C18_UnavailableCanvas ==
    [][/\ (surface # "ok" /\ lastOp'.op = "frame")
           => ops' = <<>> /\ canvas' = canvas
       /\ (surface = "noCanvas" /\ lastOp'.op = "mouseUp")
           => /\ lastOp'.hits = 0
              /\ UNCHANGED <<selectedPointId, measurePoints>>]_vars

\* a click where the origin would be drawn on a canvas never sized, after
\* a draw pass that drew nothing: there is no canvas element
C18_Witness ==
    /\ surface = "noCanvas"
    /\ lastOp.op = "mouseUp"
    /\ lastOp.moved2 = 0
    /\ mouseDownPos = XY(550, 75)
    /\ scene = SceneSquare
    /\ selectedPointId = Null
    /\ ~isMeasurementMode
    /\ pending = 0
    /\ ops = <<>>

\* C21: every hit test projects with the rotation and scale of the moment
\* of the click and with the container's width and height of that moment,
\* also when the container was resized after the last draw pass.  Stated
\* for the clicks that end where they began, whose position is
\* mouseDownPos.
C21_HitTestUsesContainer ==
    [][(lastOp'.hits = 1 /\ lastOp'.moved2 = 0)
           => lastOp'.closestId =
                  HitTest(scene.points, rotation, scale,
                          container.clientWidth, container.clientHeight,
                          mouseDownPos.x - rect.left,
                          mouseDownPos.y - rect.top)]_vars

\* the canvas calls of kind kind in layer layer of the last draw pass
OpsOf(layer, kind) ==
    {k \in DOMAIN ops : ops[k].layer = layer /\ ops[k].kind = kind}

\* C22: a draw pass draws the selected point's glow, ring and tooltip
\* exactly when measurement mode is off and the selected id is the id of a
\* scene point; a measurement ring for exactly the ids of the pair that
\* are ids of scene points; the connector and the distance badge exactly
\* when the pair holds two ids that both are ids of scene points.  A stale
\* id stops no pass: the points layer after the measurement layer is
\* complete.
C22_HighlightsResolve ==
    Drawn =>
        LET resolved == {i \in 1..Len(measurePoints) :
                             measurePoints[i] \in PointIds(scene)}
            shown    == ~isMeasurementMode /\ selectedPointId \in PointIds(scene)
        IN  /\ \A kind \in {"glow", "ring", "tooltip"} :
                   /\ (OpsOf("selected", kind) # {}) <=> shown
                   /\ \A k \in OpsOf("selected", kind) :
                          ops[k].id = selectedPointId
            /\ {ops[k].idx : k \in OpsOf("measure", "ring")} = resolved
            /\ Cardinality(OpsOf("measure", "ring")) = Cardinality(resolved)
            /\ \A k \in OpsOf("measure", "ring") :
                   ops[k].id = measurePoints[ops[k].idx]
            /\ \A kind \in {"connector", "badge"} :
                   Cardinality(OpsOf("measure", kind)) =
                       IF resolved = {1, 2} THEN 1 ELSE 0
            /\ \A i \in 1..Len(scene.points) :
                   \E k \in DOMAIN ops :
                       /\ ops[k].layer \in {"points", "selected"}
                       /\ ops[k].id = scene.points[i].id

\* the square was drawn with the pair holding the id Z of no point and
\* then B: one ring, around B, and neither connector nor badge
C22_Witness ==
    /\ Drawn
    /\ scene = SceneSquare
    /\ measurePoints = <<"Z", "B">>
    /\ Cardinality(OpsOf("measure", "ring")) = 1
    /\ OpsOf("measure", "connector") = {}

\* the scene points (by index) that got a dot in the points layer
Dotted == {ops[k].idx : k \in {j \in DOMAIN ops : ops[j].layer = "points"}}

\* C23, as claimed: the points layer draws a filled dot for exactly the
\* scene points that are neither the selected point of detail mode nor in
\* the measurement pair.
C23_StandardDots ==
    Drawn =>
        Dotted = {i \in 1..Len(scene.points) :
                      /\ ~IsSelected(scene.points[i])
                      /\ scene.points[i].id \notin Range(measurePoints)}

\* C23, amended: the points layer draws one filled dot for exactly the
\* scene points that are not the selected point of detail mode, cyan for
\* an id of the measurement pair and yellow otherwise; the selected point
\* gets no dot there and is drawn in the top layer only.
C23_DotsButSelected ==
    Drawn =>
        /\ Dotted = {i \in 1..Len(scene.points) : ~IsSelected(scene.points[i])}
        /\ \A j, k \in DOMAIN ops :
               (ops[j].layer = "points" /\ ops[k].layer = "points"
                    /\ ops[j].idx = ops[k].idx) => j = k
        /\ \A k \in DOMAIN ops :
               ops[k].layer = "points" =>
                   /\ ops[k].id = scene.points[ops[k].idx].id
                   /\ ops[k].kind =
                          IF ops[k].id \in Range(measurePoints) THEN "cyan"
                                                                ELSE "yellow"
        /\ \A i \in 1..Len(scene.points) :
               IsSelected(scene.points[i]) =>
                   \E k \in OpsOf("selected", "dot") :
                       ops[k].id = scene.points[i].id

\* A and B were drawn with both in the pair: each got its dot, in cyan
C23_Witness ==
    /\ Drawn
    /\ scene = ScenePair
    /\ measurePoints = <<"A", "B">>
    /\ Dotted = {1, 2}
    /\ \A k \in DOMAIN ops : ops[k].layer = "points" => ops[k].kind = "cyan"

\* the ids held by the selection or the pair that no scene point has
StaleIds ==
    (({selectedPointId} \ {Null}) \cup Range(measurePoints)) \ PointIds(scene)

\* C24: when the selection or the pair holds an id of no scene point, the
\* next click that hits a scene point and the next press of a mode button
\* leave neither the selection nor the pair holding that id.  Stated for
\* the clicks that hit a point with a non-empty id.
C24_StaleIdRemoved ==
    [][(\/ lastOp'.op \in {"measureButton", "selectButton"}
        \/ (lastOp'.op = "mouseUp" /\ lastOp'.hits = 1
                 /\ Truthy(lastOp'.closestId)))
           => \A id \in StaleIds :
                  id # selectedPointId' /\ id \notin Range(measurePoints')]_vars

\* C25: a pointer-leave, and a pointer-up received while idle (no
\* pointer-down since the last up or leave), runs no hit test and changes
\* neither the selected id nor the measurement pair.
C25_OnlyGestureUpHitTests ==
    [][(\/ lastOp'.op = "mouseLeave"
        \/ (lastOp'.op = "mouseUp" /\ ~isDragging))
           => /\ lastOp'.hits = 0
              /\ UNCHANGED <<selectedPointId, measurePoints>>]_vars

\* C26: a click whose hit test finds a point within the radius is handled
\* as a click on that point whatever the point's id, the empty string
\* included: in detail mode the id becomes the selection, in measurement
\* mode it goes through the updater of the pair; it is never handled as a
\* click on empty space.
C26_HitDecidesByGeometry ==
    [][(lastOp'.hits = 1 /\ lastOp'.closestId # Null)
           => IF isMeasurementMode
              THEN /\ measurePoints' =
                          MeasureUpdater(measurePoints, lastOp'.closestId)
                   /\ selectedPointId' = selectedPointId
              ELSE /\ selectedPointId' = lastOp'.closestId
                   /\ measurePoints' = measurePoints]_vars

\* C27: the draw passes run in the order of the renders they come from,
\* none from an older render after one from a newer; and whenever
\* callbacks wait, a frame comes after which none waits and the last pass
\* run was that of the latest scene, rotation, scale, selection, pair and
\* mode.
C27_LatestStateShown ==
    /\ [](/\ pending = Len(raf.queue)
          /\ \A i, j \in DOMAIN raf.queue :
                 i < j => raf.queue[i].v < raf.queue[j].v
          /\ raf.queue # <<>> => raf.shown.v < raf.queue[1].v
          /\ raf.queue # <<>> => raf.queue[Len(raf.queue)] = Current)
    /\ (raf.queue # <<>>) ~> (raf.queue = <<>> /\ raf.shown = Current)

\* a frame ran two waiting callbacks, the second from the third render,
\* and the canvas shows the state of that render, another scale than the
\* first render had
C27_Witness ==
    /\ raf.tracked
    /\ lastOp.op = "frame"
    /\ raf.ran = 2
    /\ raf.shown = Current
    /\ raf.shown.v = 3
    /\ scale # 1000

\* C28: after a confirmed reset the transcript and the scene stay empty
\* until the next send, and after a session is loaded its messages and
\* scene stay until the next send: no request sent before settles into
\* them.
C28_NoStaleResponse ==
    /\ app.fresh = "reset" => (app.messages = <<>> /\ scene = EmptyScene)
    /\ app.fresh = "load"
           => (app.messages = Session.messages /\ scene = Session.scene)

\* C29: isLoading holds exactly while a request is sent and not settled,
\* and at most one request is so at a time.
C29_LoadingTracksRequests ==
    /\ app.isLoading <=> app.inflight # {}
    /\ Cardinality(app.inflight) <= 1

\* C30: when a request fails, the scene is unchanged, the apology is the
\* one message appended, and isLoading becomes false; when it succeeds
\* without a geometry object, the scene is unchanged and the explanation
\* is the one message appended.  The message comes after the user's
\* message of the request where the transcript was not replaced since.
C30_FailureKeepsScene ==
    [][(app'.inflight # app.inflight /\ app'.inflight \subseteq app.inflight)
           => LET id == CHOOSE i \in app.inflight : i \notin app'.inflight
              IN  /\ ~app'.isLoading
                  /\ app'.last = "failed"
                         => /\ scene' = scene
                            /\ app'.messages =
                                   Append(app.messages, ErrorMsg(id))
                  /\ app'.last = "explained"
                         => /\ scene' = scene
                            /\ app'.messages = Append(app.messages, AiMsg(id))
                  /\ (app.fresh = "none" /\ id = app.sent)
                         => \E k \in DOMAIN app.messages :
                                app.messages[k] = UserMsg(id)]_vars

\* the second request failed: the scene the first one drew is still
\* there, and the apology stands after the second message
C30_Witness ==
    /\ app.last = "failed"
    /\ ~app.isLoading
    /\ scene = SceneABC
    /\ app.messages = <<UserMsg(1), AiMsg(1), UserMsg(2), ErrorMsg(2)>>

====
